---- MODULE Spec2Model ----
(***************************************************************************)
(* The poll()-based TcpServer of src/poll_tcp_server.cpp: the registry of  *)
(* watched descriptors (fds), the two staging sets (new_clients,           *)
(* remove_clients), the readiness loop of TcpServer::run, and the record   *)
(* of the handler callbacks and system calls each step issues.             *)
(*                                                                         *)
(* The operating system is the environment.  poll() reports, per POSIX,    *)
(* any combination of POLLIN, POLLERR and POLLHUP on an open descriptor    *)
(* and POLLNVAL on a descriptor that is not open; recv() on an open        *)
(* descriptor returns a negative value, zero, or the length of the bytes   *)
(* it delivered; accept() returns the lowest free descriptor number or     *)
(* fails.                                                                  *)
(*                                                                         *)
(* BroadCastChatHandler of the same file is modelled by its members        *)
(* (clients, nick_names) and its three callbacks, called in the order the  *)
(* server calls a handler in; SpecChat is the handler on its own.          *)
(***************************************************************************)
EXTENDS Integers, Sequences, FiniteSets, TLC

\* ---------------------------------------------------------------- bounds
\* Most client descriptors the process can hold open at once (accept()
\* fails beyond it, as it does at the descriptor limit).
MaxClients == 2
\* Most connections accepted over one run.
MaxConns == 2
\* Most bytes one recv() hands to the chat handler.
MaxMsgLen == 2

\* ------------------------------------------------------------- constants
\* The descriptor socket() returns to setup_socket: 0, 1 and 2 are taken.
ListenFd == 3

POLLIN   == "POLLIN"
POLLOUT  == "POLLOUT"
POLLERR  == "POLLERR"
POLLHUP  == "POLLHUP"
POLLNVAL == "POLLNVAL"

ClientFds == (ListenFd + 1) .. (ListenFd + MaxClients)
Conns     == 1 .. MaxConns
\* The byte strings a peer sends; each fits the 1024-byte buffer of recv().
Payloads  == { <<"h", "i">>, <<"h", "i", "\n">> }

\* The bytes a chat peer types: a letter and the two line terminators.
ChatBytes == { "a", "\r", "\n" }

\* The byte strings of at most n bytes.
RECURSIVE Strings(_)
Strings(n) ==
  IF n = 0 THEN { << >> }
  ELSE LET s == Strings(n - 1) IN
       s \cup { Append(t, c) : t \in s, c \in ChatBytes }

\* What on_client_data can be handed: recv() returned a positive length.
ChatInputs == Strings(MaxMsgLen) \ { << >> }

VARIABLES
  fds,             \* std::vector<pollfd>, each entry with the connection it was added for
  new_clients,     \* std::unordered_set<int>
  remove_clients,  \* std::unordered_set<int>
  pc,              \* where run() stands
  i,               \* the index of the for loop of run()
  open,            \* the descriptors open in the process
  fdConn,          \* the connection behind each open client descriptor, 0 for none
  nextConn,        \* the number of the next accepted connection
  nConnect,        \* on_client_connect calls so far, per connection
  nDisconnect,     \* on_client_disconnect calls so far, per connection
  calls,           \* the system calls and callbacks the last step issued, in order
  exit_status,     \* what main() returned, -1 while the process runs
  clients,         \* BroadCastChatHandler::clients, std::unordered_set<int>
  nick_names,      \* BroadCastChatHandler::nick_names, std::unordered_map<int, string>
  sent,            \* the send() calls of the last chat callback, in order
  cb,              \* the last chat callback: its name, descriptor, bytes and stripped text
  peers,           \* the descriptors between their on_client_connect and on_client_disconnect
  master_set,      \* select_tcp_server.cpp: fd_set master_set
  client_fds,      \* select_tcp_server.cpp: unordered_set<int> client_fds
  max_fd,          \* select_tcp_server.cpp: int max_fd
  read_set,        \* select_tcp_server.cpp: fd_set read_set of run()
  _mutex,          \* BroadCastChatHandler::_mutex: the thread that holds it, 0 for none
  threads          \* what each thread that calls the chat handler is doing

\* The state of the server and the state of the chat handler.
svars == << fds, new_clients, remove_clients, pc, i, open, fdConn, nextConn,
            nConnect, nDisconnect, calls, exit_status >>
hvars == << clients, nick_names, sent, cb, peers >>
\* The state of the select-based server and of the threads calling the handler.
selvars == << master_set, client_fds, max_fd, read_set >>
tvars   == << _mutex, threads >>
xvars   == << selvars, tvars >>
vars  == << svars, hvars, xvars >>

\* One system call or handler callback.
Call(op, fd, conn, ret, data) ==
  [op |-> op, fd |-> fd, conn |-> conn, ret |-> ret, data |-> data]

\* pollfd{fd, POLLIN, 0}
PollFd(fd, conn) ==
  [fd |-> fd, events |-> {POLLIN}, revents |-> {}, conn |-> conn]

\* How many calls of s are calls of op; for connection c; on descriptor f.
NCalls(s, op) == Cardinality({ k \in 1 .. Len(s) : s[k].op = op })
NCallsConn(s, op, c) ==
  Cardinality({ k \in 1 .. Len(s) : s[k].op = op /\ s[k].conn = c })
NCallsFd(s, op, f) ==
  Cardinality({ k \in 1 .. Len(s) : s[k].op = op /\ s[k].fd = f })

\* The threads of control that call the chat handler: one in the program as
\* it is, two for the variant section 4.5 of the design provides for.
Threads == { 1, 2 }

\* A thread that is in no callback.
Idle == [pc |-> "idle", op |-> "none", fd |-> 0, data |-> << >>, sends |-> << >>]

\* ------------------------------------------------------------------ Init
\* The state setup_socket leaves: the listening descriptor alone in fds.
Init ==
  /\ fds = << PollFd(ListenFd, 0) >>
  /\ new_clients = {}
  /\ remove_clients = {}
  /\ pc = "blocked"
  /\ i = 1
  /\ open = {ListenFd}
  /\ fdConn = [f \in ClientFds |-> 0]
  /\ nextConn = 1
  /\ nConnect = [c \in Conns |-> 0]
  /\ nDisconnect = [c \in Conns |-> 0]
  /\ calls = << >>
  /\ exit_status = -1
  /\ clients = {}
  /\ nick_names = << >>
  /\ sent = << >>
  /\ cb = [op |-> "none", fd |-> 0, data |-> << >>, text |-> << >>]
  /\ peers = {}
  /\ master_set = {}
  /\ client_fds = {}
  /\ max_fd = 0
  /\ read_set = {}
  /\ _mutex = 0
  /\ threads = [t \in Threads |-> Idle]

\* ------------------------------------------------------- the environment
\* accept(): the lowest descriptor number not in use.
LowestFree == CHOOSE f \in ClientFds \ open : \A g \in ClientFds \ open : f <= g

\* What accept() can return: -1, or a new descriptor while one is free.
AcceptOutcomes ==
  { -1 } \cup (IF ClientFds \ open # {} /\ nextConn <= MaxConns
               THEN { LowestFree } ELSE {})

\* What recv(fd, buffer, 1024, 0) can return: nb and the bytes put in buffer.
RecvOutcomes(fd) ==
  IF fd \in open /\ fd # ListenFd
  THEN { [nb |-> -1, buf |-> << >>], [nb |-> 0, buf |-> << >>] }
       \cup { [nb |-> Len(p), buf |-> p] : p \in Payloads }
  ELSE { [nb |-> -1, buf |-> << >>] }

\* What poll() can store in revents for an entry watching POLLIN: POLLERR and
\* POLLHUP are reported whether asked for or not, POLLOUT is never asked for,
\* POLLNVAL is reported exactly for a descriptor that is not open.
ReventsOutcomes(fd) ==
  IF fd \in open
  THEN SUBSET {POLLIN, POLLERR, POLLHUP}
  ELSE { s \cup {POLLNVAL} : s \in SUBSET {POLLIN, POLLERR, POLLHUP} }

\* What poll() can store in the revents of the entries es, one set per entry.
RECURSIVE ReventsVectors(_)
ReventsVectors(es) ==
  IF es = << >> THEN { << >> }
  ELSE { << h >> \o t : h \in ReventsOutcomes(Head(es).fd),
                         t \in ReventsVectors(Tail(es)) }

\* ----------------------------------------------------------- the handler
\* The calls of s made for callback op, added to the per-connection count n.
Tally(n, s, op) ==
  [c \in Conns |-> n[c] + NCallsConn(s, op, c)]

\* ------------------------------------------------------------- TcpServer
\* accept_new_client() with the push_back the source comments out.
accept_new_client_pushes(a) ==
  IF a < 0
  THEN [ret |-> -1, push |-> << >>,
        calls |-> << Call("accept", ListenFd, 0, -1, << >>) >>]
  ELSE [ret |-> a, push |-> << PollFd(a, nextConn) >>,
        calls |-> << Call("accept", ListenFd, nextConn, a, << >>),
                     Call("on_client_connect", a, nextConn, 0, << >>) >>]

\* accept_new_client() calling the connect callback before it tests what
\* accept() returned.
accept_new_client_notifies_failure(a) ==
  IF a < 0
  THEN [ret |-> -1, push |-> << >>,
        calls |-> << Call("accept", ListenFd, 0, -1, << >>),
                     Call("on_client_connect", a, 0, 0, << >>) >>]
  ELSE [ret |-> a, push |-> << >>,
        calls |-> << Call("accept", ListenFd, nextConn, a, << >>),
                     Call("on_client_connect", a, nextConn, 0, << >>) >>]

\* accept_new_client(), a being what accept() returned: the value returned,
\* the calls made, and what is appended to fds (nothing: the push_back is
\* commented out in the source, the entry is added by add_new_clients).
accept_new_client(a) ==
  IF a < 0
  THEN [ret |-> -1, push |-> << >>,
        calls |-> << Call("accept", ListenFd, 0, -1, << >>) >>]
  ELSE [ret |-> a, push |-> << >>,
        calls |-> << Call("accept", ListenFd, nextConn, a, << >>),
                     Call("on_client_connect", a, nextConn, 0, << >>) >>]

\* handle_existing_client_read() calling the connect callback when the read
\* fails, as handle_existing_client of select_tcp_server.cpp does.
handle_existing_client_read_reconnects(pfd, r) ==
  IF r.nb <= 0
  THEN [ret |-> -1,
        calls |-> << Call("recv", pfd.fd, pfd.conn, r.nb, << >>),
                     Call("on_client_connect", pfd.fd, pfd.conn, 0, << >>) >>]
  ELSE [ret |-> 0,
        calls |-> << Call("recv", pfd.fd, pfd.conn, r.nb, r.buf),
                     Call("on_client_data", pfd.fd, pfd.conn, r.nb,
                          SubSeq(r.buf, 1, r.nb)) >>]

\* handle_existing_client_read() testing nb < 0 where the source tests nb <= 0.
handle_existing_client_read_lt(pfd, r) ==
  IF r.nb < 0
  THEN [ret |-> -1,
        calls |-> << Call("recv", pfd.fd, pfd.conn, r.nb, << >>) >>]
  ELSE [ret |-> 0,
        calls |-> << Call("recv", pfd.fd, pfd.conn, r.nb, r.buf),
                     Call("on_client_data", pfd.fd, pfd.conn, r.nb,
                          SubSeq(r.buf, 1, r.nb)) >>]

\* handle_existing_client_read(client_fd) for the entry pfd, r being what
\* recv() returned.
handle_existing_client_read(pfd, r) ==
  IF r.nb <= 0
  THEN [ret |-> -1,
        calls |-> << Call("recv", pfd.fd, pfd.conn, r.nb, << >>) >>]
  ELSE [ret |-> 0,
        calls |-> << Call("recv", pfd.fd, pfd.conn, r.nb, r.buf),
                     Call("on_client_data", pfd.fd, pfd.conn, r.nb,
                          SubSeq(r.buf, 1, r.nb)) >>]

\* handle_existing_client_write(client_fd): prints only.
handle_existing_client_write(pfd) ==
  << Call("handle_existing_client_write", pfd.fd, pfd.conn, 0, << >>) >>

\* The POLLIN branch reading from the accepted descriptor at once, in the
\* pass that accepted it.
on_readable_reads_at_once(pfd, a, r) ==
  IF pfd.fd = ListenFd
  THEN LET acc == accept_new_client(a)
           rd  == handle_existing_client_read(PollFd(acc.ret, nextConn),
                                              [nb |-> 2, buf |-> << "h", "i" >>])
       IN  [calls |-> IF acc.ret >= 0 THEN acc.calls \o rd.calls ELSE acc.calls,
            push |-> acc.push,
            new |-> IF acc.ret >= 0 THEN {acc.ret} ELSE {}, remove |-> {}]
  ELSE LET rd == handle_existing_client_read(pfd, r) IN
       [calls |-> rd.calls, push |-> << >>,
        new |-> {}, remove |-> IF rd.ret < 0 THEN {pfd.fd} ELSE {}]

\* The POLLIN branch without the test for server_fd: every readable
\* descriptor is read.
on_readable_reads_listener(pfd, a, r) ==
  LET rd == handle_existing_client_read(pfd, r) IN
  [calls |-> rd.calls, push |-> << >>,
   new |-> {}, remove |-> IF rd.ret < 0 THEN {pfd.fd} ELSE {}]

\* The POLLIN branch of the loop body of run().
on_readable(pfd, a, r) ==
  IF pfd.fd = ListenFd
  THEN LET acc == accept_new_client(a) IN
       [calls |-> acc.calls, push |-> acc.push,
        new |-> IF acc.ret >= 0 THEN {acc.ret} ELSE {}, remove |-> {}]
  ELSE LET rd == handle_existing_client_read(pfd, r) IN
       [calls |-> rd.calls, push |-> << >>,
        new |-> {}, remove |-> IF rd.ret < 0 THEN {pfd.fd} ELSE {}]

\* The body of the for loop of run() for the entry pfd: the POLLNVAL and
\* POLLHUP branches print, the POLLERR branch queries SO_ERROR and prints,
\* the POLLIN branch accepts or reads, the POLLOUT branch prints.
loop_body(pfd, a, r) ==
  LET err == IF POLLERR \in pfd.revents
             THEN << Call("getsockopt", pfd.fd, pfd.conn, 0, << >>) >>
             ELSE << >>
      inp == IF POLLIN \in pfd.revents
             THEN on_readable(pfd, a, r)
             ELSE [calls |-> << >>, push |-> << >>, new |-> {}, remove |-> {}]
      out == IF POLLOUT \in pfd.revents
             THEN handle_existing_client_write(pfd)
             ELSE << >>
  IN  [calls |-> err \o inp.calls \o out, push |-> inp.push,
       new |-> inp.new, remove |-> inp.remove]

\* close_clients() closing whatever the entry's revents say.
close_one_always(e) ==
  << Call("close", e.fd, e.conn, 0, << >>),
     Call("on_client_disconnect", e.fd, e.conn, 0, << >>) >>

\* What close_clients() does with one entry e found in remove_clients.
close_one(e) ==
  (IF POLLNVAL \notin e.revents
   THEN << Call("close", e.fd, e.conn, 0, << >>) >>
   ELSE << >>)
  \o << Call("on_client_disconnect", e.fd, e.conn, 0, << >>) >>

\* close_clients() stepping past a closed entry where the source erases it.
RECURSIVE close_clients_keeps_entry(_, _)
close_clients_keeps_entry(es, rm) ==
  IF es = << >>
  THEN [fds |-> << >>, calls |-> << >>]
  ELSE LET rest == close_clients_keeps_entry(Tail(es), rm)
           e    == Head(es)
       IN  IF e.fd \in rm
           THEN [fds |-> << e >> \o rest.fds,
                 calls |-> << Call("close", e.fd, e.conn, 0, << >>),
                              Call("on_client_disconnect", e.fd, e.conn, 0, << >>) >>
                           \o rest.calls]
           ELSE [fds |-> << e >> \o rest.fds, calls |-> rest.calls]

\* close_clients() closing every staged descriptor before the first callback.
close_clients_closes_first(es, rm) ==
  LET staged(e) == e.fd \in rm
      kept(e)   == e.fd \notin rm
      gone      == SelectSeq(es, staged)
  IN  [fds   |-> SelectSeq(es, kept),
       calls |-> [k \in 1 .. Len(gone) |->
                    Call("close", gone[k].fd, gone[k].conn, 0, << >>)]
                 \o [k \in 1 .. Len(gone) |->
                       Call("on_client_disconnect", gone[k].fd, gone[k].conn, 0, << >>)]]

\* close_clients(): the entries kept, in order, and the calls made.
RECURSIVE close_clients(_, _)
close_clients(es, rm) ==
  IF es = << >>
  THEN [fds |-> << >>, calls |-> << >>]
  ELSE LET rest == close_clients(Tail(es), rm)
           e    == Head(es)
       IN  IF e.fd \in rm
           THEN [fds |-> rest.fds, calls |-> close_one(e) \o rest.calls]
           ELSE [fds |-> << e >> \o rest.fds, calls |-> rest.calls]

\* The orders in which a range-for can visit an unordered_set.
RECURSIVE Orderings(_)
Orderings(S) ==
  IF S = {} THEN { << >> }
  ELSE UNION { { << x >> \o o : o \in Orderings(S \ {x}) } : x \in S }

\* add_new_clients() that appends nothing.
add_new_clients_skips(es, order) == es

\* add_new_clients(), order being the order the set is visited in.
add_new_clients(es, order) ==
  es \o [k \in 1 .. Len(order) |-> PollFd(order[k], fdConn[order[k]])]

\* The descriptors a sequence of calls closes.
Closed(s) == { s[k].fd : k \in { j \in 1 .. Len(s) : s[j].op = "close" } }

\* --------------------------------------------------------------- actions
\* The loop of run() calls poll(fds.data(), fds.size(), -1) and blocks.  The
\* revents of the last pass are dead from here on: nothing reads them before
\* poll() returns, and poll() overwrites every one of them when it does.  The
\* model holds them as 0 while the thread is inside poll().
EnterPoll ==
  /\ pc = "loop"
  /\ UNCHANGED << hvars, xvars >>
  /\ fds' = [k \in 1 .. Len(fds) |-> [fds[k] EXCEPT !.revents = {}]]
  /\ pc' = "blocked"
  /\ calls' = << >>
  /\ UNCHANGED << new_clients, remove_clients, i, open, fdConn, nextConn,
                  nConnect, nDisconnect, exit_status >>

\* poll() returns and the scan starts with the staged sets of the last pass
\* left as they were.
Poll_keeps_staged ==
  /\ pc = "blocked"
  /\ UNCHANGED << hvars, xvars >>
  /\ \E rv \in ReventsVectors(fds) :
       /\ \E k \in 1 .. Len(fds) : rv[k] # {}
       /\ fds' = [k \in 1 .. Len(fds) |-> [fds[k] EXCEPT !.revents = rv[k]]]
       /\ calls' = << Call("poll", 0, 0,
                           Cardinality({ k \in 1 .. Len(fds) : rv[k] # {} }),
                           << >>) >>
  /\ i' = 1
  /\ pc' = "dispatch"
  /\ UNCHANGED << new_clients, remove_clients, open, fdConn, nextConn,
                  nConnect, nDisconnect, exit_status >>

\* poll() returns a positive count, with at least one event stored, then
\* remove_clients.clear(); new_clients.clear(); and the scan starts.
Poll ==
  /\ pc = "blocked"
  /\ UNCHANGED << hvars, xvars >>
  /\ \E rv \in ReventsVectors(fds) :
       /\ \E k \in 1 .. Len(fds) : rv[k] # {}
       /\ fds' = [k \in 1 .. Len(fds) |-> [fds[k] EXCEPT !.revents = rv[k]]]
       /\ calls' = << Call("poll", 0, 0,
                           Cardinality({ k \in 1 .. Len(fds) : rv[k] # {} }),
                           << >>) >>
  /\ remove_clients' = {}
  /\ new_clients' = {}
  /\ i' = 1
  /\ pc' = "dispatch"
  /\ UNCHANGED << open, fdConn, nextConn, nConnect, nDisconnect, exit_status >>

\* poll() returns a negative value: perror, break, close(server_fd), return.
PollError ==
  /\ pc = "blocked"
  /\ UNCHANGED << hvars, xvars >>
  /\ pc' = "returned"
  /\ calls' = << Call("poll", 0, 0, -1, << >>),
                 Call("close", ListenFd, 0, 0, << >>) >>
  /\ open' = open \ {ListenFd}
  /\ UNCHANGED << fds, new_clients, remove_clients, i, fdConn, nextConn,
                  nConnect, nDisconnect, exit_status >>

\* One pass of the body of the for loop, for fds[i].
DispatchStep ==
  /\ pc = "dispatch"
  /\ i <= Len(fds)
  /\ \E a \in AcceptOutcomes, r \in RecvOutcomes(fds[i].fd) :
       LET b  == loop_body(fds[i], a, r)
           nf == { f \in ClientFds :
                     \E k \in 1 .. Len(b.calls) :
                        b.calls[k].op = "accept" /\ b.calls[k].ret = f }
       IN  /\ calls' = b.calls
           /\ fds' = fds \o b.push
           /\ new_clients' = new_clients \cup b.new
           /\ remove_clients' = remove_clients \cup b.remove
           /\ open' = open \cup nf
           /\ fdConn' = [f \in ClientFds |-> IF f \in nf THEN nextConn ELSE fdConn[f]]
           /\ nextConn' = nextConn + Cardinality(nf)
           /\ nConnect' = Tally(nConnect, b.calls, "on_client_connect")
           /\ i' = i + 1
           /\ pc' = IF i + 1 <= Len(fds') THEN "dispatch" ELSE "commit"
  /\ UNCHANGED << nDisconnect, exit_status >>

\* The pass when the callbacks it makes are only recorded in calls.
Dispatch == DispatchStep /\ UNCHANGED << hvars, xvars >>

\* close_clients(), called after the scan.
CloseClientsStep ==
  /\ pc = "commit"
  /\ LET c == close_clients(fds, remove_clients) IN
       /\ fds' = c.fds
       /\ calls' = c.calls
       /\ open' = open \ Closed(c.calls)
       /\ fdConn' = [f \in ClientFds |-> IF f \in Closed(c.calls) THEN 0 ELSE fdConn[f]]
       /\ nDisconnect' = Tally(nDisconnect, c.calls, "on_client_disconnect")
  /\ pc' = "adding"
  /\ UNCHANGED << new_clients, remove_clients, i, nextConn, nConnect, exit_status >>

\* close_clients() when the callbacks it makes are only recorded in calls.
CloseClients == CloseClientsStep /\ UNCHANGED << hvars, xvars >>

\* add_new_clients(), called after close_clients(): the iteration is over.
AddNewClientsStep ==
  /\ pc = "adding"
  /\ \E order \in Orderings(new_clients) : fds' = add_new_clients(fds, order)
  /\ calls' = << >>
  /\ pc' = "loop"
  /\ UNCHANGED << new_clients, remove_clients, i, open, fdConn, nextConn,
                  nConnect, nDisconnect, exit_status >>

\* add_new_clients() makes no callback.
AddNewClients == AddNewClientsStep /\ UNCHANGED << hvars, xvars >>

\* run() has returned to main(): the try block ends, ~TcpServer closes
\* server_fd and every descriptor of fds, and main returns 0.
Teardown ==
  /\ pc = "returned"
  /\ UNCHANGED << hvars, xvars >>
  /\ calls' = << Call("close", ListenFd, 0, 0, << >>) >>
               \o [k \in 1 .. Len(fds) |-> Call("close", fds[k].fd, fds[k].conn, 0, << >>)]
  /\ open' = open \ ({ListenFd} \cup { fds[k].fd : k \in 1 .. Len(fds) })
  /\ fdConn' = [f \in ClientFds |->
                  IF \E k \in 1 .. Len(fds) : fds[k].fd = f THEN 0 ELSE fdConn[f]]
  /\ exit_status' = 0
  /\ pc' = "exited"
  /\ UNCHANGED << fds, new_clients, remove_clients, i, nextConn, nConnect,
                  nDisconnect >>

\* A client descriptor is closed by code other than the server's, between two
\* passes (the case the POLLNVAL comment of run() describes: "already closed,
\* but not removed from the poll array"): it is no longer open.
CloseElsewhere ==
  /\ pc = "loop"
  /\ UNCHANGED << hvars, xvars >>
  /\ \E f \in open \cap ClientFds :
       /\ open' = open \ {f}
       /\ fdConn' = [fdConn EXCEPT ![f] = 0]
  /\ calls' = << >>
  /\ UNCHANGED << fds, new_clients, remove_clients, pc, i, nextConn, nConnect,
                  nDisconnect, exit_status >>

\* One step of the server; its callbacks are recorded in calls.
Next ==
  \/ EnterPoll
  \/ Poll
  \/ PollError
  \/ Dispatch
  \/ CloseClients
  \/ AddNewClients
  \/ Teardown

\* The server with handlers that leave its descriptors alone.
Spec == Init /\ [][Next]_vars

NextInvalid ==
  \/ Next
  \/ CloseElsewhere

\* The server when its descriptors can be closed behind its back.
SpecInvalid == Init /\ [][NextInvalid]_vars

\* ---------------------------------------------- BroadCastChatHandler
\* The texts of the handler.  A text is a sequence whose elements are the
\* bytes received and the literals the source appends to them.
Prompt   == << " Enter your nickname: " >>
Joined   == << " joined the chat\n" >>
Left     == << " left the chat\n" >>
Colon    == << ": " >>
Newline  == << "\n" >>

\* "Client " + std::to_string(client_fd)
ClientName(fd) == << "Client ", ToString(fd) >>

\* send(fd, msg.c_str(), msg.length(), 0); what it returns is not looked at.
Send(fd, msg) == Call("send", fd, 0, Len(msg), msg)

\* msg.erase(std::remove(msg.begin(), msg.end(), c), msg.end())
EraseAll(msg, c) ==
  LET keep(b) == b # c IN SelectSeq(msg, keep)

\* The two erase lines of on_client_data: every '\r', then every '\n'.
StripLine(msg) == EraseAll(EraseAll(msg, "\r"), "\n")

\* broadcast() with no test on the sender.
broadcast_to_all(order, sender_fd, msg) ==
  [k \in 1 .. Len(order) |-> Send(order[k], msg)]

\* broadcast() when only the named connections are written to.
broadcast_to_named(order, sender_fd, msg) ==
  LET other(fd) == fd # sender_fd /\ fd \in DOMAIN nick_names
      to == SelectSeq(order, other)
  IN  [k \in 1 .. Len(to) |-> Send(to[k], msg)]

\* broadcast(sender_fd, msg): order is the order the range-for visits clients
\* in; every descriptor but sender_fd is sent msg.
broadcast(order, sender_fd, msg) ==
  LET other(fd) == fd # sender_fd
      to == SelectSeq(order, other)
  IN  [k \in 1 .. Len(to) |-> Send(to[k], msg)]

\* on_client_connect(client_fd): the handler state and the sends it leaves.
chat_on_client_connect(cl, nn, client_fd) ==
  [clients    |-> cl \cup {client_fd},
   nick_names |-> nn,
   text       |-> << >>,
   sent       |-> << Send(client_fd, Prompt) >>]

\* on_client_data() when a named connection is asked for its name again.
chat_on_client_data_renames(cl, nn, client_fd, data, order) ==
  LET msg == StripLine(data) IN
    [clients    |-> cl,
     nick_names |-> [f \in DOMAIN nn \cup {client_fd} |->
                       IF f = client_fd THEN msg ELSE nn[f]],
     text       |-> msg,
     sent       |-> broadcast(order, client_fd, msg \o Joined)]

\* on_client_data(client_fd, data, len): order is the order broadcast visits
\* clients in.
chat_on_client_data(cl, nn, client_fd, data, order) ==
  LET msg == StripLine(data) IN
    IF client_fd \notin DOMAIN nn
    THEN [clients    |-> cl,
          nick_names |-> [f \in DOMAIN nn \cup {client_fd} |->
                            IF f = client_fd THEN msg ELSE nn[f]],
          text       |-> msg,
          sent       |-> broadcast(order, client_fd, msg \o Joined)]
    ELSE [clients    |-> cl,
          nick_names |-> nn,
          text       |-> msg,
          sent       |-> broadcast(order, client_fd,
                                   nn[client_fd] \o Colon \o msg \o Newline)]

\* on_client_disconnect() without nick_names.erase(client_fd).
chat_on_client_disconnect_keeps_name(cl, nn, client_fd, order) ==
  LET name == IF client_fd \in DOMAIN nn THEN nn[client_fd]
              ELSE ClientName(client_fd)
  IN  [clients    |-> cl \ {client_fd},
       nick_names |-> nn,
       text       |-> << >>,
       sent       |-> broadcast(order, client_fd, name \o Left)]

\* on_client_disconnect(client_fd): order is the order broadcast visits what
\* is left of clients in.
chat_on_client_disconnect(cl, nn, client_fd, order) ==
  LET name == IF client_fd \in DOMAIN nn THEN nn[client_fd]
              ELSE ClientName(client_fd)
  IN  [clients    |-> cl \ {client_fd},
       nick_names |-> [f \in DOMAIN nn \ {client_fd} |-> nn[f]],
       text       |-> << >>,
       sent       |-> broadcast(order, client_fd, name \o Left)]

\* What a callback leaves in the handler, and the record of the callback;
\* the handler has no access to the state of the server.
Handled(op, fd, data, h) ==
  /\ UNCHANGED << svars, xvars >>
  /\ clients' = h.clients
  /\ nick_names' = h.nick_names
  /\ sent' = h.sent
  /\ cb' = [op |-> op, fd |-> fd, data |-> data, text |-> h.text]

\* The server calls on_client_connect for a descriptor it has just accepted.
ChatConnect ==
  \E fd \in ClientFds \ peers :
    /\ Handled("on_client_connect", fd, << >>,
               chat_on_client_connect(clients, nick_names, fd))
    /\ peers' = peers \cup {fd}

\* The server calls on_client_data with the bytes recv() read from a client.
ChatData ==
  \E orders \in { Orderings(clients) } : \E fd \in peers, data \in ChatInputs :
    \E h \in { chat_on_client_data(clients, nick_names, fd, data, order) :
                 order \in orders } :
      /\ Handled("on_client_data", fd, data, h)
      /\ peers' = peers

\* The server calls on_client_disconnect for a descriptor it has closed.
ChatDisconnect ==
  \E fd \in peers :
    \E h \in { chat_on_client_disconnect(clients, nick_names, fd, order) :
                 order \in Orderings(clients \ {fd}) } :
      /\ Handled("on_client_disconnect", fd, << >>, h)
      /\ peers' = peers \ {fd}

NextChat ==
  \/ ChatConnect
  \/ ChatData
  \/ ChatDisconnect

\* The chat handler, called as the server calls its handler: connect, then
\* data any number of times, then disconnect, per descriptor.
SpecChat == Init /\ [][NextChat]_vars

\* ---------------------------------------------------------------- claims
IsClient(e) == e.fd # ListenFd
FdSeq(es)   == [k \in 1 .. Len(es) |-> es[k].fd]
Entries     == 1 .. Len(fds)
Issued      == 1 .. Len(calls)
FaultFlags  == {POLLNVAL, POLLERR, POLLHUP}

\* C1: the registry is not mutated during a dispatch pass: every step of the
\* scan leaves fds as poll() returned it, whatever it accepts, reads or stages,
\* and the sequence of watched descriptors changes only in close_clients and
\* add_new_clients.
C1_RegistryStableDuringScan ==
  [][ /\ pc = "dispatch" => fds' = fds
      /\ FdSeq(fds') # FdSeq(fds) => pc \in {"commit", "adding"} ]_vars

\* A scan that accepted a connection and staged a removal has ended, and fds
\* still holds the staged descriptor and not the accepted one.
C1_Witness ==
  /\ pc = "commit"
  /\ new_clients # {}
  /\ remove_clients # {}
  /\ \A k \in Entries : fds[k].fd \notin new_clients
  /\ \A f \in remove_clients : \E k \in Entries : fds[k].fd = f

\* The connections accepted in the current iteration.
AcceptedThisPass == { fdConn[f] : f \in new_clients }

\* C2: no on_client_data and no on_client_disconnect is issued, in the scan or
\* in the commit of an iteration, for a connection accepted in that iteration.
C2_NoDispatchInAcceptingPass ==
  \A k \in Issued :
     calls[k].op \in {"on_client_data", "on_client_disconnect"}
        => calls[k].conn \notin AcceptedThisPass

\* Data is dispatched for a connection in a pass after the one that accepted
\* it, while that later pass has accepted another connection.
C2_Witness ==
  /\ pc \in {"dispatch", "commit"}
  /\ new_clients # {}
  /\ \E k \in Issued : calls[k].op = "on_client_data" /\ calls[k].conn \in Conns

\* C3: on_client_connect is called exactly once for each accepted connection
\* and for no other, right after the accept() that returned it, while the
\* connection is not yet in fds, and before any on_client_data for it.
C3_ConnectOncePerAccept ==
  /\ \A c \in Conns : nConnect[c] = IF c < nextConn THEN 1 ELSE 0
  /\ \A k \in Issued :
        calls[k].op = "accept" /\ calls[k].ret >= 0
           => /\ k < Len(calls)
              /\ calls[k + 1].op = "on_client_connect"
              /\ calls[k + 1].fd = calls[k].ret
              /\ calls[k + 1].conn = calls[k].conn
              /\ \A j \in Entries : fds[j].conn # calls[k].conn
  /\ \A k \in Issued :
        calls[k].op = "on_client_connect"
           => k > 1 /\ calls[k - 1].op = "accept" /\ calls[k - 1].ret = calls[k].fd
  /\ \A k \in Issued :
        calls[k].op = "on_client_data"
           => calls[k].conn \in Conns /\ nConnect[calls[k].conn] = 1

\* Every connection the bounds allow has been accepted, and the last of them
\* receives data after an earlier one was closed on a failed read.
C3_Witness ==
  /\ nextConn = MaxConns + 1
  /\ \E c \in Conns : nDisconnect[c] = 1
  /\ \E k \in Issued : calls[k].op = "on_client_data" /\ calls[k].conn = MaxConns

\* C4: a connection that disconnects gets exactly one on_client_disconnect,
\* made by close_clients: whichever of the fault flags fired for its entry in
\* the pass, and whether or not its read failed, the commit of that pass
\* calls on_client_disconnect for it once, and no connection ever gets two.
C4_ExactlyOneDisconnect ==
  [][ pc = "commit" =>
        \A k \in Entries :
           ( /\ IsClient(fds[k])
             /\ (fds[k].revents \cap FaultFlags # {} \/ fds[k].fd \in remove_clients) )
           => /\ NCallsConn(calls', "on_client_disconnect", fds[k].conn) = 1
              /\ nDisconnect'[fds[k].conn] = 1 ]_vars

\* C5: on_client_data is never called for a connection that already had its
\* on_client_disconnect, and it is called exactly where a recv() returned a
\* positive length: once, right after it, for the same descriptor.
C5_DataOnlyOnPositiveReadBeforeDisconnect ==
  /\ \A k \in Issued :
        calls[k].op = "on_client_data"
           => /\ calls[k].conn \in Conns
              /\ nDisconnect[calls[k].conn] = 0
              /\ k > 1
              /\ calls[k - 1].op = "recv"
              /\ calls[k - 1].ret > 0
              /\ calls[k - 1].fd = calls[k].fd
  /\ \A k \in Issued :
        calls[k].op = "recv" /\ calls[k].ret > 0
           => /\ k < Len(calls)
              /\ calls[k + 1].op = "on_client_data"
              /\ calls[k + 1].fd = calls[k].fd
  /\ NCalls(calls, "on_client_data")
       = Cardinality({ k \in Issued : calls[k].op = "recv" /\ calls[k].ret > 0 })

\* Data arrives on a descriptor number whose previous connection was closed
\* and had its on_client_disconnect.
C5_Witness ==
  \E k \in Issued :
     /\ calls[k].op = "on_client_data"
     /\ \E c \in Conns : c # calls[k].conn /\ nDisconnect[c] = 1

\* C6: a client descriptor whose revents include POLLHUP is staged for removal
\* by the scan of that pass, whatever its read returned, and is no longer in
\* fds once close_clients has run.
C6_HangupStagedAndRemoved ==
  /\ pc = "commit" =>
        \A k \in Entries :
           IsClient(fds[k]) /\ POLLHUP \in fds[k].revents
              => fds[k].fd \in remove_clients
  /\ pc \in {"adding", "loop"} =>
        \A k \in Entries : IsClient(fds[k]) => POLLHUP \notin fds[k].revents

\* C7: a client descriptor whose revents include POLLERR has SO_ERROR queried
\* when the scan visits it, is staged for removal by the scan of that pass,
\* and is no longer in fds once close_clients has run.
C7_ErrorQueriedStagedAndRemoved ==
  /\ pc \in {"dispatch", "commit"} /\ i > 1 =>
        ( IsClient(fds[i - 1]) /\ POLLERR \in fds[i - 1].revents
             => \E k \in Issued :
                   calls[k].op = "getsockopt" /\ calls[k].fd = fds[i - 1].fd )
  /\ pc = "commit" =>
        \A k \in Entries :
           IsClient(fds[k]) /\ POLLERR \in fds[k].revents
              => fds[k].fd \in remove_clients
  /\ pc \in {"adding", "loop"} =>
        \A k \in Entries : IsClient(fds[k]) => POLLERR \notin fds[k].revents

\* C8: a descriptor whose revents include POLLNVAL is staged for removal by
\* the scan of that pass and is no longer in fds once close_clients has run,
\* so that no later pass reports it again.
C8_InvalidStagedAndRemoved ==
  /\ pc = "commit" =>
        \A k \in Entries :
           POLLNVAL \in fds[k].revents => fds[k].fd \in remove_clients
  /\ pc \in {"adding", "loop"} =>
        \A k \in Entries : POLLNVAL \notin fds[k].revents

C10_ReadOutcome ==
  \A k \in Issued :
     calls[k].op = "recv" =>
        IF calls[k].ret <= 0
        THEN /\ calls[k].fd \in remove_clients
             /\ NCalls(calls, "on_client_data") = 0
        ELSE /\ NCalls(calls, "on_client_data") = 1
             /\ k < Len(calls)
             /\ calls[k + 1].op = "on_client_data"
             /\ calls[k + 1].fd = calls[k].fd
             /\ calls[k + 1].ret = calls[k].ret
             /\ calls[k + 1].data = calls[k].data
             /\ Len(calls[k + 1].data) = calls[k].ret
             /\ calls[k].fd \notin remove_clients

\* A positive-length read is dispatched in a pass in which an earlier
\* descriptor's read failed and was staged.
C10_Witness ==
  /\ pc \in {"dispatch", "commit"}
  /\ remove_clients # {}
  /\ \E k \in Issued : calls[k].op = "recv" /\ calls[k].ret > 0

\* C11: while the server object lives, fds holds no descriptor twice, and
\* every entry is the listening descriptor or an open descriptor of the
\* connection it was added for, which has had no on_client_disconnect; this
\* also when a closed descriptor's number comes back from a later accept().
C11_RegistryIdsUniqueAndActive ==
  pc # "exited" =>
     /\ \A j \in Entries : \A k \in Entries : j # k => fds[j].fd # fds[k].fd
     /\ \A k \in Entries :
           \/ fds[k].fd = ListenFd
           \/ /\ fds[k].fd \in open
              /\ fds[k].conn \in Conns
              /\ fdConn[fds[k].fd] = fds[k].conn
              /\ nDisconnect[fds[k].conn] = 0

\* A descriptor number closed for one connection is in fds again for a later
\* one.
C11_Witness ==
  \E k \in Entries :
     /\ IsClient(fds[k])
     /\ fds[k].conn > 1
     /\ \E c \in Conns : c < fds[k].conn /\ nDisconnect[c] = 1
     /\ fds[k].fd = ListenFd + 1

\* C12: while the loop of run() runs, fds holds exactly one entry for the
\* listening descriptor, watching POLLIN; the listening descriptor is open,
\* is never in remove_clients and is never erased by close_clients, whatever
\* revents poll() stored for it.
C12_OneListeningEntry ==
  pc \in {"loop", "blocked", "dispatch", "commit", "adding"} =>
     /\ Cardinality({ k \in Entries : fds[k].fd = ListenFd }) = 1
     /\ \A k \in Entries : fds[k].fd = ListenFd => fds[k].events = {POLLIN}
     /\ ListenFd \notin remove_clients
     /\ ListenFd \in open

\* close_clients has run after a pass in which the listening descriptor
\* fired POLLIN, POLLERR and POLLHUP together and a client was removed.
C12_Witness ==
  /\ pc = "adding"
  /\ \E k \in Entries :
        fds[k].fd = ListenFd /\ fds[k].revents = {POLLIN, POLLERR, POLLHUP}
  /\ remove_clients # {}

\* C13: new_clients and remove_clients are both empty when a dispatch pass
\* starts, and no descriptor is ever in both.
C13_StagedSetsDisjoint ==
  /\ pc = "dispatch" /\ i = 1 => new_clients = {} /\ remove_clients = {}
  /\ new_clients \cap remove_clients = {}

\* A pass after the first has staged an accepted descriptor and the removal
\* of another descriptor.
C13_Witness ==
  /\ pc = "commit"
  /\ nextConn > 2
  /\ new_clients # {}
  /\ remove_clients # {}
  /\ new_clients # remove_clients

\* C14: when poll() returns an error the loop ends and the process exits with
\* a non-zero status.
C14_PollErrorExitsNonZero ==
  /\ \A k \in Issued :
        calls[k].op = "poll" /\ calls[k].ret < 0 => pc = "returned"
  /\ pc = "exited" => exit_status # 0

\* C15: an accept() that fails calls no on_client_connect, stages nothing,
\* leaves fds, the open descriptors and the connection counts as they were,
\* and the loop goes on with the next entry or with the commit.
C15_FailedAcceptIgnored ==
  [][ ( \E k \in 1 .. Len(calls') : calls'[k].op = "accept" /\ calls'[k].ret < 0 )
        => /\ NCalls(calls', "on_client_connect") = 0
           /\ new_clients' = new_clients
           /\ remove_clients' = remove_clients
           /\ fds' = fds
           /\ open' = open
           /\ nextConn' = nextConn
           /\ nConnect' = nConnect
           /\ pc' \in {"dispatch", "commit"}
           /\ i' = i + 1 ]_vars

\* An accept() has failed and the scan goes on with the client entries.
C15_Witness ==
  /\ pc = "dispatch"
  /\ i = 2
  /\ Len(fds) >= 2
  /\ \E k \in Issued : calls[k].op = "accept" /\ calls[k].ret < 0

\* ----------------------------------------------- claims on the chat handler
OnData       == "on_client_data"
OnDisconnect == "on_client_disconnect"
SentCalls    == 1 .. Len(sent)
\* How many of the sends of s went to descriptor f.
SendsTo(s, f) == NCallsFd(s, "send", f)
\* A chat line: the name, ": ", the text, "\n".
ChatLine(name, text) == name \o Colon \o text \o Newline

\* C16: the fan-out of a message never delivers it to its sender: after
\* on_client_data for descriptor c, nothing was sent to c, every other member
\* of clients was sent to exactly once, nothing went outside clients, and all
\* the sends carry the same text.
C16_FanOutSkipsSender ==
  cb.op = OnData =>
    /\ SendsTo(sent, cb.fd) = 0
    /\ \A f \in clients \ {cb.fd} : SendsTo(sent, f) = 1
    /\ \A k \in SentCalls : sent[k].fd \in clients /\ sent[k].data = sent[1].data

\* A message was fanned out to every other member, and there is one.
C16_Witness ==
  /\ cb.op = OnData
  /\ cb.fd \in clients
  /\ Cardinality(clients) >= 2
  /\ Len(sent) = Cardinality(clients) - 1

\* C17: a connection goes from awaiting its name to named and stays there.
\* The on_client_data of a descriptor with no name gives it the text as its
\* name and sends every other member the join announcement; the
\* on_client_data of a named descriptor leaves the names as they are and
\* sends every other member the text after that name; a name is changed or
\* dropped by nothing but the on_client_disconnect of its descriptor.
C17_AwaitingNameThenNamed ==
  [][ /\ (cb'.op = OnData /\ cb'.fd \notin DOMAIN nick_names) =>
           /\ cb'.fd \in DOMAIN nick_names'
           /\ nick_names'[cb'.fd] = cb'.text
           /\ \A f \in DOMAIN nick_names : nick_names'[f] = nick_names[f]
           /\ \A f \in clients \ {cb'.fd} : SendsTo(sent', f) = 1
           /\ \A k \in 1 .. Len(sent') : sent'[k].data = cb'.text \o Joined
      /\ (cb'.op = OnData /\ cb'.fd \in DOMAIN nick_names) =>
           /\ nick_names' = nick_names
           /\ \A f \in clients \ {cb'.fd} : SendsTo(sent', f) = 1
           /\ \A k \in 1 .. Len(sent') :
                sent'[k].data = ChatLine(nick_names[cb'.fd], cb'.text)
      /\ \A f \in DOMAIN nick_names :
           (f \notin DOMAIN nick_names' \/ nick_names'[f] # nick_names[f]) =>
             (cb'.op = OnDisconnect /\ cb'.fd = f /\ f \notin DOMAIN nick_names')
    ]_vars

\* A named descriptor has sent a line, and a member was sent it under the
\* name.
C17_Witness ==
  /\ cb.op = OnData
  /\ cb.fd \in DOMAIN nick_names
  /\ cb.text # nick_names[cb.fd]
  /\ nick_names[cb.fd] # << >>
  /\ \E k \in SentCalls : sent[k].data = ChatLine(nick_names[cb.fd], cb.text)

\* C18, as stated: when a named descriptor A sends a chat line, a peer B is
\* sent it only if B has a name; a connected B still awaiting its name is not
\* sent it, and A is not sent it.
C18_OnlyNamedPeersReceive ==
  [][ (cb'.op = OnData /\ cb'.fd \in DOMAIN nick_names) =>
        /\ SendsTo(sent', cb'.fd) = 0
        /\ \A b \in peers \ {cb'.fd} :
             SendsTo(sent', b) > 0 => b \in DOMAIN nick_names
    ]_vars

\* C18, amended: when a named descriptor A sends a chat line, the peers sent
\* it are exactly the descriptors connected at that moment other than A, each
\* once, whether or not they have a name; A is not sent it.
C18_EveryConnectedPeerReceives ==
  [][ (cb'.op = OnData /\ cb'.fd \in DOMAIN nick_names) =>
        /\ SendsTo(sent', cb'.fd) = 0
        /\ \A b \in ClientFds \ {cb'.fd} :
             SendsTo(sent', b) = IF b \in peers THEN 1 ELSE 0
        /\ \A k \in 1 .. Len(sent') :
             sent'[k].data = ChatLine(nick_names[cb'.fd], cb'.text)
    ]_vars

\* A named descriptor has sent a line and a connected peer with no name was
\* sent it.
C18_Witness ==
  /\ cb.op = OnData
  /\ cb.fd \in DOMAIN nick_names
  /\ \E k \in SentCalls :
       /\ sent[k].fd \in peers \ DOMAIN nick_names
       /\ sent[k].data = ChatLine(nick_names[cb.fd], cb.text)

\* C19: on_client_disconnect sends every remaining member the departure
\* announcement, under the name the descriptor had, or under "Client <fd>" if
\* it never had one, and leaves the descriptor in neither nick_names nor
\* clients.
C19_DepartureAnnouncedAndForgotten ==
  [][ cb'.op = OnDisconnect =>
        LET name == IF cb'.fd \in DOMAIN nick_names THEN nick_names[cb'.fd]
                    ELSE ClientName(cb'.fd)
        IN  /\ cb'.fd \notin clients'
            /\ cb'.fd \notin DOMAIN nick_names'
            /\ clients' = clients \ {cb'.fd}
            /\ \A f \in ClientFds :
                 SendsTo(sent', f) = IF f \in clients' THEN 1 ELSE 0
            /\ \A k \in 1 .. Len(sent') : sent'[k].data = name \o Left
    ]_vars

\* A descriptor that never gave a name has left, and a remaining member was
\* told so under the fallback name.
C19_Witness ==
  /\ cb.op = OnDisconnect
  /\ clients # {}
  /\ \E k \in SentCalls :
       sent[k].fd \in clients /\ sent[k].data = ClientName(cb.fd) \o Left

\* The bytes of s up to its trailing run of '\r' and '\n'.
RECURSIVE StripTrailing(_)
StripTrailing(s) ==
  IF s # << >> /\ s[Len(s)] \in {"\r", "\n"}
  THEN StripTrailing(SubSeq(s, 1, Len(s) - 1))
  ELSE s

\* C20: the text on_client_data uses as name or chat line is the bytes it
\* received less their trailing '\r' and '\n', every other byte in its place.
C20_OnlyTrailingTerminatorsStripped ==
  cb.op = OnData => cb.text = StripTrailing(cb.data)

\* ------------------------------------------------- send() and its failures
\* What send(fd, buf, len, 0) on a stream socket can do: queue the bytes and
\* return len; fail and return -1 (ECONNRESET, EAGAIN, ...); or, when the
\* peer has closed and flags carry no MSG_NOSIGNAL, fail with EPIPE and raise
\* SIGPIPE.  No source file installs a handler for SIGPIPE or ignores it.
SendOutcomes == { "sent", "failed", "sigpipe" }

\* exit status of a process ended by SIGPIPE, as a shell reports it.
KilledBySigpipe == 141

\* The index of the first send of outs that raises SIGPIPE, 0 for none.
FirstSigpipe(outs) ==
  IF \E k \in 1 .. Len(outs) : outs[k] = "sigpipe"
  THEN CHOOSE k \in 1 .. Len(outs) :
         /\ outs[k] = "sigpipe"
         /\ \A j \in 1 .. k - 1 : outs[j] # "sigpipe"
  ELSE 0

\* The send() calls a callback gets to make, with what each returned: the
\* default action of SIGPIPE ends the process inside the send that raised it.
Attempted(sends, outs) ==
  LET stop == FirstSigpipe(outs)
      n    == IF stop = 0 THEN Len(sends) ELSE stop
  IN  [k \in 1 .. n |->
         [sends[k] EXCEPT !.ret = IF outs[k] = "sent" THEN Len(sends[k].data) ELSE -1]]

\* A callback of the chat handler whose sends meet the outcomes outs.
HandledWith(op, fd, data, h, outs) ==
  /\ clients' = h.clients
  /\ nick_names' = h.nick_names
  /\ sent' = Attempted(h.sent, outs)
  /\ cb' = [op |-> op, fd |-> fd, data |-> data, text |-> h.text]
  /\ exit_status' = IF FirstSigpipe(outs) # 0 THEN KilledBySigpipe
                    ELSE exit_status
  /\ UNCHANGED << fds, new_clients, remove_clients, pc, i, open, fdConn,
                  nextConn, nConnect, nDisconnect, calls, xvars >>

\* on_client_connect, the prompt meeting any outcome.
FaultyConnect ==
  /\ exit_status = -1
  /\ \E fd \in ClientFds \ peers :
       LET h == chat_on_client_connect(clients, nick_names, fd) IN
         \E outs \in [1 .. Len(h.sent) -> SendOutcomes] :
           /\ HandledWith("on_client_connect", fd, << >>, h, outs)
           /\ peers' = peers \cup {fd}

\* on_client_data, each send of the fan-out meeting any outcome.
FaultyData ==
  /\ exit_status = -1
  /\ \E fd \in peers, data \in ChatInputs, order \in Orderings(clients) :
       LET h == chat_on_client_data(clients, nick_names, fd, data, order) IN
         \E outs \in [1 .. Len(h.sent) -> SendOutcomes] :
           /\ HandledWith("on_client_data", fd, data, h, outs)
           /\ peers' = peers

\* on_client_disconnect, each send of the fan-out meeting any outcome.
FaultyDisconnect ==
  /\ exit_status = -1
  /\ \E fd \in peers : \E order \in Orderings(clients \ {fd}) :
       LET h == chat_on_client_disconnect(clients, nick_names, fd, order) IN
         \E outs \in [1 .. Len(h.sent) -> SendOutcomes] :
           /\ HandledWith("on_client_disconnect", fd, << >>, h, outs)
           /\ peers' = peers \ {fd}

NextChatFaults ==
  \/ FaultyConnect
  \/ FaultyData
  \/ FaultyDisconnect

\* The chat handler when a send() can fail.
SpecChatFaults == Init /\ [][NextChatFaults]_vars

\* C21: a write failure to one peer during the fan-out of on_client_data is
\* not fatal: every other member is still written to, the failing peer stays
\* a member, and the process is not ended.
C21_WriteFailureNotFatal ==
  (cb.op = OnData /\ \E k \in SentCalls : sent[k].ret < 0) =>
    /\ exit_status = -1
    /\ \A f \in clients \ {cb.fd} : SendsTo(sent, f) = 1
    /\ \A k \in SentCalls : sent[k].fd \in clients

\* ---------------------------------------------------------- the echo handlers
\* EchoHandler::on_client_data with the line terminators taken out first.
echo_on_client_data_strips(client_fd, data, len) ==
  << Send(client_fd, StripLine(SubSeq(data, 1, len))) >>

\* EchoHandler::on_client_data(client_fd, data, len) of poll_tcp_server.cpp:
\* send(client_fd, data, len, 0).
echo_on_client_data(client_fd, data, len) ==
  << Send(client_fd, SubSeq(data, 1, len)) >>

\* TcpServer::on_client_data of select_tcp_server.cpp, which
\* EchoServer::on_client_data calls after printing: the same send, and a
\* perror when it returns nothing positive.
select_on_client_data(client_fd, data, len) ==
  << Send(client_fd, SubSeq(data, 1, len)) >>

\* What recv() hands to an echo handler.
EchoInputs == ChatInputs \cup Payloads

\* An echo callback: it keeps no state, the sends are all it leaves.
Echoed(op, fd, data, sends) ==
  /\ sent' = sends
  /\ cb' = [op |-> op, fd |-> fd, data |-> data, text |-> << >>]
  /\ UNCHANGED << svars, clients, nick_names, xvars >>

\* EchoHandler::on_client_connect prints.
EchoConnect ==
  \E fd \in ClientFds \ peers :
    /\ Echoed("on_client_connect", fd, << >>, << >>)
    /\ peers' = peers \cup {fd}

\* EchoHandler::on_client_data with the bytes of one recv().
EchoData ==
  \E fd \in peers, data \in EchoInputs :
    /\ Echoed("on_client_data", fd, data, echo_on_client_data(fd, data, Len(data)))
    /\ peers' = peers

\* EchoServer::on_client_data with the bytes of one recv().
SelectEchoData ==
  \E fd \in peers, data \in EchoInputs :
    /\ Echoed("EchoServer::on_client_data", fd, data,
              select_on_client_data(fd, data, Len(data)))
    /\ peers' = peers

\* EchoHandler::on_client_disconnect prints.
EchoDisconnect ==
  \E fd \in peers :
    /\ Echoed("on_client_disconnect", fd, << >>, << >>)
    /\ peers' = peers \ {fd}

NextEcho ==
  \/ EchoConnect
  \/ EchoData
  \/ SelectEchoData
  \/ EchoDisconnect

\* The echo handlers, called as the servers call them.
SpecEcho == Init /\ [][NextEcho]_vars

\* C22: on_data of the echo handler writes the bytes it received, all of
\* them, unchanged and in their order, to the connection they came from and
\* to no other.
C22_EchoIsIdentity ==
  cb.op \in { OnData, "EchoServer::on_client_data" } =>
    /\ Len(sent) = 1
    /\ sent[1].op = "send"
    /\ sent[1].fd = cb.fd
    /\ sent[1].data = cb.data
    /\ sent[1].ret = Len(cb.data)

\* Bytes with a line terminator inside them were echoed while another
\* connection was there to be written to.
C22_Witness ==
  /\ cb.op = OnData
  /\ peers # {cb.fd}
  /\ \E k \in 1 .. Len(cb.data) - 1 : cb.data[k] \in { "\r", "\n" }
  /\ Len(sent) = 1
  /\ sent[1].data = cb.data

\* --------------------------------------- the server of select_tcp_server.cpp
\* The state setup_socket of select_tcp_server.cpp leaves: the listening
\* descriptor alone in master_set, max_fd = server_fd, nothing in client_fds.
InitSelect ==
  /\ fds = << >>
  /\ new_clients = {}
  /\ remove_clients = {}
  /\ pc = "select"
  /\ i = 0
  /\ open = {ListenFd}
  /\ fdConn = [f \in ClientFds |-> 0]
  /\ nextConn = 1
  /\ nConnect = [c \in Conns |-> 0]
  /\ nDisconnect = [c \in Conns |-> 0]
  /\ calls = << >>
  /\ exit_status = -1
  /\ clients = {}
  /\ nick_names = << >>
  /\ sent = << >>
  /\ cb = [op |-> "none", fd |-> 0, data |-> << >>, text |-> << >>]
  /\ peers = {}
  /\ master_set = {ListenFd}
  /\ client_fds = {}
  /\ max_fd = ListenFd
  /\ read_set = {}
  /\ _mutex = 0
  /\ threads = [t \in Threads |-> Idle]

\* What the scan of one descriptor leaves in the members of the server, and
\* the calls it made.
Scanned(ms, cf, mx, cs) ==
  [master_set |-> ms, client_fds |-> cf, max_fd |-> mx, calls |-> cs]

\* accept_new_client() of select_tcp_server.cpp, a being what accept() returns.
select_accept_new_client(a) ==
  IF a < 0
  THEN Scanned(master_set, client_fds, max_fd,
               << Call("accept", ListenFd, 0, -1, << >>) >>)
  ELSE Scanned(master_set \cup {a}, client_fds \cup {a},
               IF a > max_fd THEN a ELSE max_fd,
               << Call("accept", ListenFd, nextConn, a, << >>),
                  Call("on_client_connect", a, nextConn, 0, << >>) >>)

\* close_client(client_fd): close, FD_CLR, erase, on_client_disconnect.
select_close_client(client_fd) ==
  Scanned(master_set \ {client_fd}, client_fds \ {client_fd}, max_fd,
          << Call("close", client_fd, fdConn[client_fd], 0, << >>),
             Call("on_client_disconnect", client_fd, fdConn[client_fd], 0, << >>) >>)

\* handle_existing_client(client_fd), r being what recv() returns.  Line 196
\* calls on_client_connect before close_client when recv() returns nothing.
select_handle_existing_client(client_fd, r) ==
  IF r.nb <= 0
  THEN LET c == select_close_client(client_fd) IN
       Scanned(c.master_set, c.client_fds, c.max_fd,
               << Call("recv", client_fd, fdConn[client_fd], r.nb, << >>),
                  Call("on_client_connect", client_fd, fdConn[client_fd], 0, << >>) >>
               \o c.calls)
  ELSE Scanned(master_set, client_fds, max_fd,
               << Call("recv", client_fd, fdConn[client_fd], r.nb, r.buf),
                  Call("on_client_data", client_fd, fdConn[client_fd], r.nb,
                       SubSeq(r.buf, 1, r.nb)) >>
               \o select_on_client_data(client_fd, r.buf, r.nb))

\* The body of the for loop of run() for descriptor fd.
select_loop_body(fd, a, r) ==
  IF fd \in read_set
  THEN IF fd = ListenFd
       THEN select_accept_new_client(a)
       ELSE select_handle_existing_client(fd, r)
  ELSE Scanned(master_set, client_fds, max_fd, << >>)

\* What the select server leaves alone.
SelectFrame ==
  UNCHANGED << fds, new_clients, remove_clients, hvars, tvars >>

\* read_set = master_set; select(max_fd + 1, &read_set, NULL, NULL, NULL)
\* returns with the descriptors that are ready, at least one, left in read_set.
Select ==
  /\ pc = "select"
  /\ \E ready \in (SUBSET master_set) \ { {} } :
       /\ read_set' = ready
       /\ calls' = << Call("select", 0, 0, Cardinality(ready), << >>) >>
  /\ i' = 0
  /\ pc' = "scan"
  /\ UNCHANGED << open, fdConn, nextConn, nConnect, nDisconnect, exit_status,
                  master_set, client_fds, max_fd >>
  /\ SelectFrame

\* select() returns a negative value: perror, break, run() returns.
SelectError ==
  /\ pc = "select"
  /\ read_set' = master_set
  /\ calls' = << Call("select", 0, 0, -1, << >>) >>
  /\ pc' = "returned"
  /\ UNCHANGED << i, open, fdConn, nextConn, nConnect, nDisconnect, exit_status,
                  master_set, client_fds, max_fd >>
  /\ SelectFrame

\* One pass of the for loop: fd = i, up to max_fd as it stands after the pass.
Scan ==
  /\ pc = "scan"
  /\ i <= max_fd
  /\ \E a \in AcceptOutcomes, r \in RecvOutcomes(i) :
       LET b  == select_loop_body(i, a, r)
           nf == { f \in ClientFds :
                     \E k \in 1 .. Len(b.calls) :
                        b.calls[k].op = "accept" /\ b.calls[k].ret = f }
       IN  /\ calls' = b.calls
           /\ master_set' = b.master_set
           /\ client_fds' = b.client_fds
           /\ max_fd' = b.max_fd
           /\ open' = (open \cup nf) \ Closed(b.calls)
           /\ fdConn' = [f \in ClientFds |->
                           IF f \in nf THEN nextConn
                           ELSE IF f \in Closed(b.calls) THEN 0 ELSE fdConn[f]]
           /\ nextConn' = nextConn + Cardinality(nf)
           /\ nConnect' = Tally(nConnect, b.calls, "on_client_connect")
           /\ nDisconnect' = Tally(nDisconnect, b.calls, "on_client_disconnect")
           /\ i' = i + 1
           /\ pc' = IF i + 1 <= b.max_fd THEN "scan" ELSE "select"
  /\ UNCHANGED << read_set, exit_status >>
  /\ SelectFrame

\* run() has returned to main(): main returns EXIT_SUCCESS and ~TcpServer
\* closes server_fd and every descriptor of client_fds.
SelectTeardown ==
  /\ pc = "returned"
  /\ \E order \in Orderings(client_fds) :
       calls' = << Call("close", ListenFd, 0, 0, << >>) >>
                \o [k \in 1 .. Len(order) |->
                      Call("close", order[k], fdConn[order[k]], 0, << >>)]
  /\ open' = open \ ({ListenFd} \cup client_fds)
  /\ fdConn' = [f \in ClientFds |-> IF f \in client_fds THEN 0 ELSE fdConn[f]]
  /\ exit_status' = 0
  /\ pc' = "exited"
  /\ UNCHANGED << i, nextConn, nConnect, nDisconnect, master_set, client_fds,
                  max_fd, read_set >>
  /\ SelectFrame

NextSelect ==
  \/ Select
  \/ SelectError
  \/ Scan
  \/ SelectTeardown

\* The select-based server with its echo callbacks.
SpecSelect == InitSelect /\ [][NextSelect]_vars

\* C23: in the select-based server on_client_connect is called once per
\* accepted connection, by the accept that made it, and at no other point:
\* not when a read returns zero or less and the connection is closed.
C23_SelectConnectOnlyAtAccept ==
  /\ \A c \in Conns : nConnect[c] = IF c < nextConn THEN 1 ELSE 0
  /\ \A k \in Issued :
       calls[k].op = "on_client_connect" =>
         /\ k > 1
         /\ calls[k - 1].op = "accept"
         /\ calls[k - 1].ret = calls[k].fd

\* ---------------------------------------------------------------- startup
\* What main() returns from its catch block.
EXIT_FAILURE == 1

NullHandler == "nullptr"
ChatHandler == "BroadCastChatHandler"

\* What socket(), bind() and listen() can return to setup_socket.
SocketOutcomes == { -1, ListenFd }
BindOutcomes   == { -1, 0 }
ListenOutcomes == { -1, 0 }

\* What the constructor leaves: whether it threw, fds, and the calls made.
Built(threw, es, cs) == [threw |-> threw, fds |-> es, calls |-> cs]

\* setup_socket() that goes on when bind() fails.
setup_socket_ignores_bind(s, b, l) ==
  IF s < 0
  THEN Built(TRUE, << >>, << Call("socket", 0, 0, s, << >>) >>)
  ELSE IF l < 0
  THEN Built(TRUE, << >>, << Call("socket", 0, 0, s, << >>),
                             Call("bind", s, 0, b, << >>),
                             Call("listen", s, 0, l, << >>) >>)
  ELSE Built(FALSE, << PollFd(s, 0) >>,
             << Call("socket", 0, 0, s, << >>),
                Call("bind", s, 0, b, << >>),
                Call("listen", s, 0, l, << >>) >>)

\* setup_socket(): s, b and l are what socket(), bind() and listen() return;
\* each failure throws std::runtime_error before fds.push_back.
setup_socket(s, b, l) ==
  IF s < 0
  THEN Built(TRUE, << >>, << Call("socket", 0, 0, s, << >>) >>)
  ELSE IF b < 0
  THEN Built(TRUE, << >>, << Call("socket", 0, 0, s, << >>),
                             Call("bind", s, 0, b, << >>) >>)
  ELSE IF l < 0
  THEN Built(TRUE, << >>, << Call("socket", 0, 0, s, << >>),
                             Call("bind", s, 0, b, << >>),
                             Call("listen", s, 0, l, << >>) >>)
  ELSE Built(FALSE, << PollFd(s, 0) >>,
             << Call("socket", 0, 0, s, << >>),
                Call("bind", s, 0, b, << >>),
                Call("listen", s, 0, l, << >>) >>)

\* TcpServer::TcpServer(port, p_handler): a null handler throws before
\* setup_socket is called.
TcpServer(p_handler, s, b, l) ==
  IF p_handler = NullHandler
  THEN Built(TRUE, << >>, << Call("TcpServer", 0, 0, 0, << p_handler >>) >>)
  ELSE LET u == setup_socket(s, b, l) IN
       Built(u.threw, u.fds,
             << Call("TcpServer", 0, 0, 0, << p_handler >>) >> \o u.calls)

\* The descriptors a sequence of calls got from socket().
Opened(s) ==
  { s[k].ret : k \in { j \in 1 .. Len(s) : s[j].op = "socket" /\ s[j].ret >= 0 } }

\* main() before the constructor runs: nothing is open, fds is empty.
InitStart ==
  /\ fds = << >>
  /\ new_clients = {}
  /\ remove_clients = {}
  /\ pc = "main"
  /\ i = 1
  /\ open = {}
  /\ fdConn = [f \in ClientFds |-> 0]
  /\ nextConn = 1
  /\ nConnect = [c \in Conns |-> 0]
  /\ nDisconnect = [c \in Conns |-> 0]
  /\ calls = << >>
  /\ exit_status = -1
  /\ clients = {}
  /\ nick_names = << >>
  /\ sent = << >>
  /\ cb = [op |-> "none", fd |-> 0, data |-> << >>, text |-> << >>]
  /\ peers = {}
  /\ master_set = {}
  /\ client_fds = {}
  /\ max_fd = 0
  /\ read_set = {}
  /\ _mutex = 0
  /\ threads = [t \in Threads |-> Idle]

\* main(): the constructor returns and run() is entered.
Construct ==
  /\ pc = "main"
  /\ \E p \in { NullHandler, ChatHandler },
        s \in SocketOutcomes, b \in BindOutcomes, l \in ListenOutcomes :
       LET u == TcpServer(p, s, b, l) IN
         /\ ~ u.threw
         /\ fds' = u.fds
         /\ calls' = u.calls
         /\ open' = open \cup Opened(u.calls)
  /\ pc' = "blocked"
  /\ UNCHANGED << new_clients, remove_clients, i, fdConn, nextConn, nConnect,
                  nDisconnect, exit_status, hvars, xvars >>

\* main(): the constructor throws; the object was never constructed, so its
\* destructor does not run; the catch block prints and returns EXIT_FAILURE.
ConstructThrows ==
  /\ pc = "main"
  /\ \E p \in { NullHandler, ChatHandler },
        s \in SocketOutcomes, b \in BindOutcomes, l \in ListenOutcomes :
       LET u == TcpServer(p, s, b, l) IN
         /\ u.threw
         /\ fds' = u.fds
         /\ calls' = u.calls
         /\ open' = open \cup Opened(u.calls)
  /\ exit_status' = EXIT_FAILURE
  /\ pc' = "exited"
  /\ UNCHANGED << new_clients, remove_clients, i, fdConn, nextConn, nConnect,
                  nDisconnect, hvars, xvars >>

NextStart ==
  \/ Construct
  \/ ConstructThrows
  \/ Next

\* The program from the first line of main().
SpecStart == InitStart /\ [][NextStart]_vars

\* A call of s that is a startup failure.
StartupFailed(s) ==
  \E k \in 1 .. Len(s) :
    \/ s[k].op \in { "socket", "bind", "listen" } /\ s[k].ret < 0
    \/ s[k].op = "TcpServer" /\ s[k].data = << NullHandler >>

\* C24: a startup failure (socket(), bind() or listen() failing, a null
\* handler) ends the program before the loop: the step that meets it leaves
\* the process exited with a non-zero status, fds empty, no callback called
\* and poll() never called; nothing runs after a process has exited.
C24_StartupFailureAborts ==
  [][ /\ pc # "exited"
      /\ StartupFailed(calls') =>
           /\ pc = "main"
           /\ pc' = "exited"
           /\ exit_status' # 0 /\ exit_status' # -1
           /\ fds' = << >>
           /\ \A k \in 1 .. Len(calls') :
                calls'[k].op \in { "TcpServer", "socket", "bind", "listen" }
           /\ \A c \in Conns : nConnect'[c] = 0 /\ nDisconnect'[c] = 0
    ]_vars

\* bind() failed after socket() succeeded, and the process has exited.
C24_Witness ==
  /\ pc = "exited"
  /\ exit_status = EXIT_FAILURE
  /\ \E k \in Issued : calls[k].op = "bind" /\ calls[k].ret < 0

\* ------------------------------------- the chat handler called by two threads
\* Each callback is: std::lock_guard<std::mutex> lk(_mutex) ("lock"), the
\* statements that read and write clients and nick_names ("body"), the call
\* of broadcast ("broadcast"), and the end of the scope, where lk is
\* destroyed ("unlock").  on_client_connect does not call broadcast.
Callbacks == { "on_client_connect", OnData, OnDisconnect }

\* What is inside the scope of the lock_guard.
Locked == { "body", "broadcast", "unlock" }

\* The thread record with some fields replaced.
At(t, p) == [threads EXCEPT ![t].pc = p]

\* What the callback of thread t does to the handler, for each order in which
\* broadcast can visit clients.
Effects(t) ==
  LET c == threads[t] IN
    IF c.op = "on_client_connect"
    THEN { chat_on_client_connect(clients, nick_names, c.fd) }
    ELSE IF c.op = OnData
    THEN { chat_on_client_data(clients, nick_names, c.fd, c.data, order) :
             order \in Orderings(clients) }
    ELSE { chat_on_client_disconnect(clients, nick_names, c.fd, order) :
             order \in Orderings(clients \ {c.fd}) }

\* broadcast() if it took _mutex itself: std::mutex is not recursive, so the
\* thread waits for a lock it holds.
EnterBroadcast_relocks(t) ==
  /\ _mutex = 0
  /\ _mutex' = t

\* broadcast() is entered with _mutex held by the caller and takes no lock.
EnterBroadcast(t) ==
  /\ _mutex' = _mutex

\* What the threads leave alone.
ThreadFrame == UNCHANGED << svars, selvars, peers, cb >>

\* The server, or a second dispatcher, calls a callback on thread t.
Invoke(t) ==
  /\ threads[t].pc = "idle"
  /\ \E op \in Callbacks, fd \in ClientFds, data \in Payloads :
       threads' = [threads EXCEPT ![t] =
                     [pc |-> "lock", op |-> op, fd |-> fd,
                      data |-> IF op = OnData THEN data ELSE << >>,
                      sends |-> << >>]]
  /\ UNCHANGED << _mutex, clients, nick_names, sent >>
  /\ ThreadFrame

\* std::lock_guard<std::mutex> lk(_mutex): returns once the mutex is free.
Lock(t) ==
  /\ threads[t].pc = "lock"
  /\ _mutex = 0
  /\ _mutex' = t
  /\ threads' = At(t, "body")
  /\ UNCHANGED << clients, nick_names, sent >>
  /\ ThreadFrame

\* The statements of the callback up to its call of broadcast (up to its end
\* for on_client_connect).
Body(t) ==
  /\ threads[t].pc = "body"
  /\ \E h \in Effects(t) :
       /\ clients' = h.clients
       /\ nick_names' = h.nick_names
       /\ IF threads[t].op = "on_client_connect"
          THEN /\ sent' = h.sent
               /\ threads' = At(t, "unlock")
          ELSE /\ sent' = sent
               /\ threads' = [threads EXCEPT ![t].pc = "broadcast",
                                             ![t].sends = h.sent]
  /\ UNCHANGED _mutex
  /\ ThreadFrame

\* broadcast(client_fd, msg): the sends of the fan-out.
Broadcast(t) ==
  /\ threads[t].pc = "broadcast"
  /\ EnterBroadcast(t)
  /\ sent' = threads[t].sends
  /\ threads' = [threads EXCEPT ![t].pc = "unlock", ![t].sends = << >>]
  /\ UNCHANGED << clients, nick_names >>
  /\ ThreadFrame

\* The callback returns: lk is destroyed and releases _mutex.
Unlock(t) ==
  /\ threads[t].pc = "unlock"
  /\ _mutex' = 0
  /\ threads' = [threads EXCEPT ![t] = Idle]
  /\ UNCHANGED << clients, nick_names, sent >>
  /\ ThreadFrame

Run(t) == Lock(t) \/ Body(t) \/ Broadcast(t) \/ Unlock(t)

NextThreads == \E t \in Threads : Invoke(t) \/ Run(t)

\* The chat handler with its callbacks called from two threads; a thread
\* that can run does run.
SpecThreads ==
  Init /\ [][NextThreads]_vars /\ \A t \in Threads : WF_vars(Run(t))

\* C25: clients and nick_names are written, and the fan-out is made, only by
\* the one thread that holds _mutex and is inside a callback; no two threads
\* are inside the locked part of a callback at once; and a thread that holds
\* _mutex gives it up, so no thread waits for it for ever.
C25_SessionStateUnderOneLock ==
  /\ [][ (clients' # clients \/ nick_names' # nick_names \/ sent' # sent) =>
           \E t \in Threads :
             /\ _mutex = t
             /\ _mutex' = t
             /\ threads[t].pc \in { "body", "broadcast" }
             /\ \A u \in Threads \ {t} : threads'[u] = threads[u]
       ]_vars
  /\ [](\A t, u \in Threads :
          (threads[t].pc \in Locked /\ threads[u].pc \in Locked) => t = u)
  /\ [](\A t \in Threads : threads[t].pc \in Locked <=> _mutex = t)
  /\ \A t \in Threads : (_mutex = t) ~> (_mutex = 0)

\* One thread is in the fan-out of on_client_data, holding _mutex, while the
\* other waits at its lock_guard.
C25_Witness ==
  \E t, u \in Threads :
    /\ t # u
    /\ threads[t].pc = "broadcast"
    /\ threads[t].op = OnData
    /\ threads[t].sends # << >>
    /\ _mutex = t
    /\ threads[u].pc = "lock"

\* --------------------------------------------- claims on the commit and teardown
\* The client descriptors that have an entry in es.
Watched(es) == { es[k].fd : k \in { j \in 1 .. Len(es) : IsClient(es[j]) } }

\* C26: the commit of a pass first applies the removals, adding nothing, and
\* then appends one entry watching POLLIN for every descriptor staged for
\* addition in that pass, after the entries that were there; so when poll()
\* is next called every accepted descriptor that is open has its entry.
C26_StagedAdditionsCommitted ==
  /\ [][ /\ pc = "commit" =>
              /\ pc' = "adding"
              /\ new_clients' = new_clients
              /\ \A k \in 1 .. Len(fds') : fds'[k].fd \notin new_clients
         /\ pc = "adding" =>
              /\ pc' = "loop"
              /\ Len(fds') = Len(fds) + Cardinality(new_clients)
              /\ SubSeq(fds', 1, Len(fds)) = fds
              /\ \A f \in new_clients :
                   \E k \in Len(fds) + 1 .. Len(fds') :
                     /\ fds'[k].fd = f
                     /\ fds'[k].events = {POLLIN}
                     /\ fds'[k].revents = {}
       ]_vars
  /\ [](pc \in { "loop", "blocked" } => open \cap ClientFds \subseteq Watched(fds))

\* A commit that removed one connection and added another has ended, the
\* added descriptor last in fds.
C26_Witness ==
  /\ pc = "loop"
  /\ remove_clients # {}
  /\ new_clients # {}
  /\ fds[Len(fds)].fd \in new_clients
  /\ \A k \in Entries : fds[k].fd \notin remove_clients

\* C27: every close() the server makes is of a descriptor that is open, no
\* descriptor is closed twice in one step, and when the process has exited,
\* by the poll() error path and the destructor, nothing is left open.
C27_EachDescriptorClosedOnce ==
  /\ [][ \A k \in 1 .. Len(calls') :
           calls'[k].op = "close" =>
             /\ calls'[k].fd \in open
             /\ NCallsFd(calls', "close", calls'[k].fd) = 1
       ]_vars
  /\ [](pc = "exited" => open = {})

\* ------------------------- the server with the chat handler main() gives it
\* What the callback recorded as call c does to the handler whose members are
\* cl and nn, for each order in which broadcast can visit clients.
CallEffects(cl, nn, c) ==
  IF c.op = "on_client_connect"
  THEN { chat_on_client_connect(cl, nn, c.fd) }
  ELSE IF c.op = OnData
  THEN { chat_on_client_data(cl, nn, c.fd, c.data, order) :
           order \in Orderings(cl) }
  ELSE { chat_on_client_disconnect(cl, nn, c.fd, order) :
           order \in Orderings(cl \ {c.fd}) }

\* send() on a descriptor that is not open returns -1 (EBADF).
Reached(sends, op) ==
  [k \in 1 .. Len(sends) |->
     IF sends[k].fd \in op THEN sends[k] ELSE [sends[k] EXCEPT !.ret = -1]]

\* The handler and the open descriptors after callback c with effect h.
After(hs, c, h) ==
  [clients    |-> h.clients,
   nick_names |-> h.nick_names,
   sent       |-> hs.sent \o Reached(h.sent, hs.open),
   cb         |-> [op |-> c.op, fd |-> c.fd, data |-> c.data, text |-> h.text],
   peers      |-> IF c.op = "on_client_connect" THEN hs.peers \cup {c.fd}
                  ELSE IF c.op = OnDisconnect THEN hs.peers \ {c.fd}
                  ELSE hs.peers,
   open       |-> hs.open]

\* The calls cs of one step of the server, made one after the other from the
\* handler and open descriptors hs: accept() and close() change what is open,
\* a callback runs the handler.  The set of the states it can end in.
RECURSIVE Delivered(_, _)
Delivered(cs, hs) ==
  IF cs = << >> THEN { hs }
  ELSE LET c == Head(cs) IN
       IF c.op = "accept" /\ c.ret >= 0
       THEN Delivered(Tail(cs), [hs EXCEPT !.open = @ \cup {c.ret}])
       ELSE IF c.op = "close"
       THEN Delivered(Tail(cs), [hs EXCEPT !.open = @ \ {c.fd}])
       ELSE IF c.op \in Callbacks
       THEN UNION { Delivered(Tail(cs), After(hs, c, h)) :
                      h \in CallEffects(hs.clients, hs.nick_names, c) }
       ELSE Delivered(Tail(cs), hs)

\* The handler runs the callbacks of the step that ends in calls'.
Deliver ==
  \E hs \in Delivered(calls',
                      [clients |-> clients, nick_names |-> nick_names,
                       sent |-> << >>,
                       cb |-> [op |-> "none", fd |-> 0, data |-> << >>, text |-> << >>],
                       peers |-> peers, open |-> open]) :
    /\ clients' = hs.clients
    /\ nick_names' = hs.nick_names
    /\ sent' = hs.sent
    /\ cb' = hs.cb
    /\ peers' = hs.peers

\* One pass of the body of the for loop, its callbacks run by the handler.
ChatDispatch == DispatchStep /\ Deliver /\ UNCHANGED xvars

\* close_clients(), its callbacks run by the handler.
ChatCloseClients == CloseClientsStep /\ Deliver /\ UNCHANGED xvars

\* add_new_clients(): no callback, no send.
ChatAddNewClients == AddNewClientsStep /\ Deliver /\ UNCHANGED xvars

NextChatServer ==
  \/ EnterPoll
  \/ Poll
  \/ PollError
  \/ ChatDispatch
  \/ ChatCloseClients
  \/ ChatAddNewClients
  \/ Teardown

\* The poll-based server with the BroadCastChatHandler main() constructs.
SpecChatServer == Init /\ [][NextChatServer]_vars

\* C28: when a commit has ended the members of clients are exactly the client
\* descriptors that have an entry in fds, and at all times every descriptor
\* with a name is a member of clients.
C28_MembershipMatchesRegistry ==
  /\ pc = "loop" => clients = Watched(fds)
  /\ DOMAIN nick_names \subseteq clients

\* A commit that removed the one connection there was and added a new one
\* has ended.
C28_Witness ==
  /\ pc = "loop"
  /\ remove_clients # {}
  /\ new_clients # {}
  /\ clients = new_clients
  /\ nick_names = << >>
  /\ \E c \in Conns : nDisconnect[c] = 1

\* C29: every send of the handler goes to a descriptor that is open at the
\* moment of the send: none returns the error of a descriptor that is not
\* open, also when close_clients removes several connections in one commit.
C29_FanOutOnlyToOpenDescriptors ==
  \A k \in SentCalls : sent[k].fd \in ClientFds /\ sent[k].ret >= 0

\* Two connections were removed in one commit, and the departure of the first
\* was announced to the second, which the same commit then closed.
C29_Witness ==
  /\ pc = "adding"
  /\ NCalls(calls, OnDisconnect) >= 2
  /\ sent # << >>
  /\ sent[1].ret >= 0
  /\ sent[1].fd \notin open

\* C30: a descriptor number that accept() hands out again carries no name
\* from the connection that had it before: at on_client_connect it has no
\* name, before and after, and the first text of a descriptor with no name
\* becomes its name and is announced as a join, not sent as a chat line.
C30_ReusedDescriptorStartsUnnamed ==
  [][ /\ \A k \in 1 .. Len(calls') :
           calls'[k].op = "on_client_connect" =>
             /\ calls'[k].fd \notin DOMAIN nick_names
             /\ calls'[k].fd \notin DOMAIN nick_names'
             /\ calls'[k].fd \in clients'
      /\ \A k \in 1 .. Len(calls') :
           (calls'[k].op = OnData /\ calls'[k].fd \notin DOMAIN nick_names) =>
             /\ nick_names'[calls'[k].fd] = StripLine(calls'[k].data)
             /\ \A j \in 1 .. Len(sent') :
                  sent'[j].data = StripLine(calls'[k].data) \o Joined
    ]_vars

\* The second connection on a descriptor number, the first one removed, has
\* sent its first text and has it as its name.
C30_Witness ==
  /\ cb.op = OnData
  /\ fdConn[cb.fd] > 1
  /\ \E c \in Conns : c < fdConn[cb.fd] /\ nDisconnect[c] = 1
  /\ cb.fd = ListenFd + 1
  /\ cb.fd \in DOMAIN nick_names
  /\ nick_names[cb.fd] = cb.text
  /\ NCalls(calls, OnData) = 1

====
